---------------------------- MODULE Spec2Model ----------------------------
(***************************************************************************)
(* Task dependency graph view (TaskDAGViewInner) together with the         *)
(* useTaskDependencies hook and the persistence service it talks to.       *)
(*                                                                         *)
(* The client keeps `tasks` (the task list handed down by the parent),     *)
(* `dependencies` (the dependency query's data), the graph widget's        *)
(* `nodes` and `edges`, and the refs and flags of the auto-layout effect,  *)
(* the delete dialog and the sidebar drag.  Mutations travel to the        *)
(* server as requests in flight; the server answers each one and the       *)
(* client learns of the new server state only through a refetch.           *)
(***************************************************************************)
EXTENDS Integers, FiniteSets, Sequences, Bags, TLC

\* ------------------------------------------------------------------ bounds
NumTasks == 2
MaxRequests == 2
MaxInflight == 2
MaxDrag == 2        \* a drag moves a node by 1..MaxDrag from the drop position

\* --------------------------------------------------------------- constants
null == -1          \* the JavaScript null of a position field / of a node id
EmptyId == 0        \* the empty string returned by getData for a missing key
NODE_WIDTH == 280
NODE_HEIGHT == 100
MARGIN == 50
NODE_SPACING == 50
RANK_SPACING == 120
DropX == 10
DropY == 10
NODE_SPACING_TB == 80
RANK_SPACING_TB == 120

Tasks == 1..NumTasks
DepIds == 1..MaxRequests

VARIABLES
    srvTasks,       \* server: ids of the tasks that exist
    srvPos,         \* server: task id -> [x, y], each a number or null
    srvDeps,        \* server: set of [id, task_id, depends_on_task_id]
    srvNextId,      \* server: next dependency id to hand out
    tasks,          \* client: the `tasks` prop, task id -> [x, y]
    dependencies,   \* client: query.data ?? []
    depsQuery,      \* client: "idle" | "stale" | "fetching"
    depsResp,       \* the dependency list carried by the fetch in flight
    nodes,          \* client: node id -> [x, y] (useNodesState)
    edges,          \* client: set of [id, source, target] (useEdgesState)
    prevDepsCountRef,
    initialLayoutAppliedRef,
    autoLayoutEnabled,
    layoutTimer,    \* the 100 ms timer of the initial layout is armed
    initialLayouts, \* how many times the timer's callback has run
    deleteDialogOpen,
    edgeToDelete,
    isDraggingOverSidebar,
    isDraggingOverSidebarRef,
    inflight,       \* bag of mutation requests sent and not yet answered
    alerted,        \* the last message shown with window.alert
    alerts,         \* how many times window.alert has been called
    sent,           \* number of mutation requests sent so far
    dragging,       \* the node the widget is dragging (its `dragging` flag), or null
    isLayouting,    \* TaskDagView: the layout button is disabled
    hasInitialized, \* TaskDagView: the initial layout has been scheduled
    layoutArgs,     \* the node list and edge list given to getLayoutedElements
    layoutResult    \* the node list it returned

srvVars == <<srvTasks, srvPos, srvDeps, srvNextId>>
queryVars == <<dependencies, depsQuery, depsResp>>
layoutVars == <<prevDepsCountRef, initialLayoutAppliedRef, layoutTimer, initialLayouts>>
dialogVars == <<deleteDialogOpen, edgeToDelete>>
dragVars == <<isDraggingOverSidebar, isDraggingOverSidebarRef>>
\* what TaskDAGViewInner's handlers never write: the other view's flag and
\* the arguments and result of a layout call on its own
staticVars == <<isLayouting, hasInitialized, layoutArgs, layoutResult>>
otherVars == <<dragging, staticVars>>
vars == <<srvTasks, srvPos, srvDeps, srvNextId, tasks, dependencies,
          depsQuery, depsResp, nodes, edges, prevDepsCountRef,
          initialLayoutAppliedRef, autoLayoutEnabled, layoutTimer,
          initialLayouts, deleteDialogOpen, edgeToDelete,
          isDraggingOverSidebar, isDraggingOverSidebarRef, inflight, alerted,
          alerts, sent, dragging, isLayouting, hasInitialized, layoutArgs,
          layoutResult>>

NoPos == [x |-> null, y |-> null]
NoEdge == <<>>      \* edgeToDelete when no edge is pending

\* ------------------------------------------------------------ pure helpers
Max(S) == CHOOSE m \in S : \A k \in S : k <= m

\* value ?? fallback
Coalesce(value, fallback) == IF value = null THEN fallback ELSE value

\* every task shown in the graph, whether or not it has a position
dagTasksAll(ts) == DOMAIN ts

\* the useMemo that classifies the tasks by dag_position
dagTasks(ts) ==
    {t \in DOMAIN ts : ts[t].x # null /\ ts[t].y # null}

poolTasks(ts) ==
    {t \in DOMAIN ts : ~(ts[t].x # null /\ ts[t].y # null)}

\* layoutNodes: tasks sorted by creation order (the id order here), eight
\* per row, a saved position taking precedence over the grid position
layoutNodes(ts, shown) ==
    [t \in shown |->
        LET index == Cardinality({u \in shown : u < t})
            columnIndex == index % 8
            rowIndex == index \div 8
        IN  [x |-> Coalesce(ts[t].x, columnIndex * (220 + 120)),
             y |-> Coalesce(ts[t].y, rowIndex * (80 + 40))]]

createEdgeIdFromDependency(dep) == <<"dep-", dep.id>>

getDependencyIdFromEdgeId(edgeId) ==
    IF edgeId[1] = "dep-" THEN edgeId[2] ELSE null

\* createEdges that draws each edge from the dependent to its prerequisite
createEdgesReversed(deps) ==
    {[id |-> createEdgeIdFromDependency(dep),
      source |-> dep.task_id,
      target |-> dep.depends_on_task_id] : dep \in deps}

createEdges(deps) ==
    {[id |-> createEdgeIdFromDependency(dep),
      source |-> dep.depends_on_task_id,
      target |-> dep.task_id] : dep \in deps}

\* an edge sync that keeps the edges held and adds those of the new list
syncEdgesMerging(current, deps) == current \cup createEdges(deps)

\* the edge sync effect: setEdges(createEdges(dependencies, handleEdgeDelete))
syncEdges(current, deps) == createEdges(deps)

\* --------------------------------------------------------- directed graphs
\* pairs <<from, to>> of a set of edges
Pairs(es) == {<<e.source, e.target>> : e \in es}
DepPairs(deps) == {<<d.depends_on_task_id, d.task_id>> : d \in deps}
Endpoints(ps) == {p[1] : p \in ps} \cup {p[2] : p \in ps}

RECURSIVE ReachFrom(_, _, _)
\* the vertices reachable from the set `seen` along the pairs `ps`
ReachFrom(seen, ps, fuel) ==
    LET next == seen \cup {p[2] : p \in {q \in ps : q[1] \in seen}}
    IN  IF fuel = 0 \/ next = seen THEN seen ELSE ReachFrom(next, ps, fuel - 1)

\* there is a directed path of one or more pairs from a to b
Path(ps, a, b) ==
    b \in ReachFrom({p[2] : p \in {q \in ps : q[1] = a}}, ps, Cardinality(ps))

HasCycle(ps) == \E v \in Endpoints(ps) : Path(ps, v, v)

\* ------------------------------------------------------------------ layout
RECURSIVE LongestPath(_, _, _)
\* length of the longest path that ends in v
LongestPath(ps, v, fuel) ==
    LET preds == {p[1] : p \in {q \in ps : q[2] = v /\ q[1] # v}}
    IN  IF fuel = 0 \/ preds = {} THEN 0
        ELSE 1 + Max({LongestPath(ps, u, fuel - 1) : u \in preds})

RECURSIVE LongestPathFrom(_, _, _)
\* length of the longest path that starts in v
LongestPathFrom(ps, v, fuel) ==
    LET succs == {p[2] : p \in {q \in ps : q[1] = v /\ q[2] # v}}
    IN  IF fuel = 0 \/ succs = {} THEN 0
        ELSE 1 + Max({LongestPathFrom(ps, u, fuel - 1) : u \in succs})

\* a ranking that counts from the sinks: prerequisites get the higher ranks
DagreRankFromSinks(vs, ps, v) == LongestPathFrom(ps, v, Cardinality(vs))

\* dagre.layout: the graph holds the nodes set with setNode and every
\* endpoint named by setEdge; each vertex gets a rank and an order in it
DagreRank(vs, ps, v) == LongestPath(ps, v, Cardinality(vs))

DagreOrder(vs, ps, v) ==
    Cardinality({u \in vs : DagreRank(vs, ps, u) = DagreRank(vs, ps, v) /\ u < v})

\* getLayoutedElements(nodes, edges, {direction, nodeSpacing, rankSpacing}):
\* one output node per input node; direction is "TB" or "LR"
getLayoutedElements(ns, es, direction) ==
    LET ps == Pairs(es)
        vs == DOMAIN ns \cup Endpoints(ps)
        along(v) == MARGIN + DagreRank(vs, ps, v) *
                       ((IF direction = "LR" THEN NODE_WIDTH ELSE NODE_HEIGHT)
                        + RANK_SPACING)
        across(v) == MARGIN + DagreOrder(vs, ps, v) *
                       ((IF direction = "LR" THEN NODE_HEIGHT ELSE NODE_WIDTH)
                        + NODE_SPACING)
    IN  [n \in DOMAIN ns |->
            IF direction = "LR"
            THEN [x |-> along(n), y |-> across(n)]
            ELSE [x |-> across(n), y |-> along(n)]]

\* getLayoutedElements with the spacings of the options argument
getLayoutedElementsSpaced(ns, es, direction, nodeSpacing, rankSpacing) ==
    LET ps == Pairs(es)
        vs == DOMAIN ns \cup Endpoints(ps)
        along(v) == MARGIN + DagreRank(vs, ps, v) *
                       ((IF direction = "LR" THEN NODE_WIDTH ELSE NODE_HEIGHT)
                        + rankSpacing)
        across(v) == MARGIN + DagreOrder(vs, ps, v) *
                       ((IF direction = "LR" THEN NODE_HEIGHT ELSE NODE_WIDTH)
                        + nodeSpacing)
    IN  [n \in DOMAIN ns |->
            IF direction = "LR"
            THEN [x |-> along(n), y |-> across(n)]
            ELSE [x |-> across(n), y |-> along(n)]]

\* a node of the widget as an element of a node list
ListNode(n, position) == [id |-> n, position |-> position]

\* the ids of a node list
Ids(nodeList) == {nodeList[i].id : i \in 1..Len(nodeList)}

RECURSIVE Ascending(_)
\* the elements of a set of ids in ascending order
Ascending(S) ==
    IF S = {} THEN <<>>
    ELSE LET m == CHOOSE a \in S : \A b \in S : a <= b
         IN  <<m>> \o Ascending(S \ {m})

\* a return statement that walks the vertices of the dagre graph instead of
\* the input list: the vertices created by setEdge come out as nodes too
getLayoutedNodeListOfGraph(nodeList, es, direction) ==
    LET extra == Ascending(Endpoints(Pairs(es)) \ Ids(nodeList))
        all == nodeList \o [i \in 1..Len(extra) |-> ListNode(extra[i], NoPos)]
        laid == getLayoutedElements([n \in Ids(all) |-> NoPos], es, direction)
    IN  [i \in 1..Len(all) |-> [all[i] EXCEPT !.position = laid[all[i].id]]]

\* a layout that moves each node by the computed amount from where it was
getLayoutedNodeListRelative(nodeList, es, direction) ==
    LET laid == getLayoutedElements([n \in Ids(nodeList) |-> NoPos], es, direction)
    IN  [i \in 1..Len(nodeList) |->
            [nodeList[i] EXCEPT !.position =
                [x |-> nodeList[i].position.x + laid[nodeList[i].id].x,
                 y |-> nodeList[i].position.y + laid[nodeList[i].id].y]]]

\* a layout that refuses an edge set with a directed cycle and returns the
\* nodes as they were given
getLayoutedNodeListOrInvalidGraph(nodeList, es, direction) ==
    LET laid == getLayoutedElements([n \in Ids(nodeList) |-> NoPos], es, direction)
    IN  IF HasCycle(Pairs(es)) THEN nodeList
        ELSE [i \in 1..Len(nodeList) |->
                 [nodeList[i] EXCEPT !.position = laid[nodeList[i].id]]]

\* getLayoutedElements on the node array itself: the return statement
\* nodes.map(...) gives, for each element of the input in turn, the element
\* with the position dagre computed for its id
getLayoutedNodeList(nodeList, es, direction) ==
    LET laid == getLayoutedElements([n \in Ids(nodeList) |-> NoPos], es, direction)
    IN  [i \in 1..Len(nodeList) |->
            [nodeList[i] EXCEPT !.position = laid[nodeList[i].id]]]

\* applyAutoLayout: left-to-right layout of the nodes and edges given
applyAutoLayout(nodesToLayout, edgesToLayout) ==
    getLayoutedElements(nodesToLayout, edgesToLayout, "LR")

\* ----------------------------------------------------------- initial state
\* The view mounts on a project whose tasks are loaded and whose dependency
\* query has not answered yet; the tasks are all in the pool, or all have a
\* saved position, or the first has one and the others are in the pool.
Init ==
    /\ srvTasks = Tasks
    /\ srvPos \in {[t \in Tasks |-> NoPos],
                   [t \in Tasks |-> [x |-> DropX, y |-> DropY]],
                   [t \in Tasks |-> IF t = 1 THEN [x |-> DropX, y |-> DropY]
                                             ELSE NoPos]}
    /\ srvDeps = {}
    /\ srvNextId = 1
    /\ tasks = srvPos
    /\ dependencies = {}
    /\ depsQuery = "stale"
    /\ depsResp = {}
    /\ nodes = layoutNodes(tasks, dagTasks(tasks))
    /\ edges = createEdges(dependencies)
    /\ prevDepsCountRef = Cardinality(dependencies)
    /\ initialLayoutAppliedRef = FALSE
    /\ autoLayoutEnabled = TRUE
    /\ layoutTimer = FALSE
    /\ initialLayouts = 0
    /\ deleteDialogOpen = FALSE
    /\ edgeToDelete = NoEdge
    /\ isDraggingOverSidebar = FALSE
    /\ isDraggingOverSidebarRef = FALSE
    /\ inflight = EmptyBag
    /\ alerted = "none"
    /\ alerts = 0
    /\ sent = 0
    /\ dragging = null
    /\ isLayouting = FALSE
    /\ hasInitialized = FALSE
    /\ layoutArgs = <<>>
    /\ layoutResult = <<>>

\* -------------------------------------------------------- requests in flight
CreateReq(task, dependsOn) ==
    [op |-> "create", task_id |-> task, depends_on_task_id |-> dependsOn]
DeleteReq(depId) == [op |-> "delete", id |-> depId]
UpdateReq(task, px, py, clear) ==
    [op |-> "update", taskId |-> task, dag_position_x |-> px,
     dag_position_y |-> py, clear_dag_position |-> clear]

\* the session sends at most MaxRequests requests in all and has at most
\* MaxInflight of them unanswered at a time
Room(k) ==
    /\ sent + k <= MaxRequests
    /\ BagCardinality(inflight) + k <= MaxInflight

Send(reqs) ==
    /\ inflight' = inflight (+) SetToBag(reqs)
    /\ sent' = sent + Cardinality(reqs)
    /\ UNCHANGED <<alerted, alerts>>

NoSend == UNCHANGED <<inflight, alerted, alerts, sent>>

\* the variables that only the answers to requests change
reqVars == <<inflight, alerted, alerts, sent>>
Pending(op) == {r \in BagToSet(inflight) : r.op = op}

\* the effect without the line that sets initialLayoutAppliedRef.current
autoLayoutEffectNoMark(v, nodesCount, edgesCount, enabled, ts, deps) ==
    LET depsCount == Cardinality(deps)
        freshNodes == layoutNodes(ts, dagTasks(ts))
        freshEdges == createEdges(deps)
    IN  IF ~v.applied /\ enabled /\ nodesCount > 0 /\ edgesCount > 0
        THEN [v EXCEPT !.timer = TRUE, !.prev = depsCount]
        ELSE IF v.applied /\ enabled /\ depsCount # v.prev
             THEN [v EXCEPT !.nodes = applyAutoLayout(freshNodes, freshEdges),
                            !.timer = FALSE, !.prev = depsCount]
             ELSE [v EXCEPT !.timer = FALSE, !.prev = depsCount]

\* the effect with a second branch that does not look at autoLayoutEnabled
autoLayoutEffectAlways(v, nodesCount, edgesCount, enabled, ts, deps) ==
    LET depsCount == Cardinality(deps)
        freshNodes == layoutNodes(ts, dagTasks(ts))
        freshEdges == createEdges(deps)
    IN  IF ~v.applied /\ enabled /\ nodesCount > 0 /\ edgesCount > 0
        THEN [v EXCEPT !.applied = TRUE, !.timer = TRUE, !.prev = depsCount]
        ELSE IF v.applied /\ depsCount # v.prev
             THEN [v EXCEPT !.nodes = applyAutoLayout(freshNodes, freshEdges),
                            !.timer = FALSE, !.prev = depsCount]
             ELSE [v EXCEPT !.timer = FALSE, !.prev = depsCount]

\* ------------------------------------------------------ auto-layout effect
\* One run of the effect "Auto-layout when dependencies change": v holds
\* the refs, the timer and the nodes state that a setNodes of this run
\* replaces; nodesCount and edgesCount are the counts of the render the
\* effect belongs to.  The cleanup of the previous run clears its timer.
autoLayoutEffect(v, nodesCount, edgesCount, enabled, ts, deps) ==
    LET depsCount == Cardinality(deps)
        prevDepsCount == v.prev
        freshNodes == layoutNodes(ts, dagTasks(ts))
        freshEdges == createEdges(deps)
    IN  IF ~v.applied /\ enabled /\ nodesCount > 0 /\ edgesCount > 0
        THEN [v EXCEPT !.applied = TRUE, !.timer = TRUE, !.prev = depsCount]
        ELSE IF v.applied /\ enabled /\ depsCount # prevDepsCount
             THEN [v EXCEPT !.nodes = applyAutoLayout(freshNodes, freshEdges),
                            !.timer = FALSE, !.prev = depsCount]
             ELSE [v EXCEPT !.timer = FALSE, !.prev = depsCount]

View(ns) ==
    [nodes |-> ns, prev |-> prevDepsCountRef,
     applied |-> initialLayoutAppliedRef, timer |-> layoutTimer]

SetView(v) ==
    /\ nodes' = v.nodes
    /\ prevDepsCountRef' = v.prev
    /\ initialLayoutAppliedRef' = v.applied
    /\ layoutTimer' = v.timer

\* ------------------------------------------- dependency query (react-query)
\* invalidateDependencies that leaves the query as it is
InvalidatedNever == UNCHANGED <<depsQuery, depsResp>>

\* invalidateDependencies: the query is marked stale and refetched; a fetch
\* already in flight is cancelled
Invalidated ==
    /\ depsQuery' = "stale"
    /\ depsResp' = {}

\* a refetch that no mutation asked for (window focus, reconnect)
Refetch ==
    /\ depsQuery = "idle"
    /\ depsQuery' = "stale"
    /\ UNCHANGED <<srvVars, tasks, dependencies, depsResp, nodes, edges,
                   layoutVars, autoLayoutEnabled, dialogVars, dragVars, otherVars, reqVars>>

\* queryFn: dependenciesApi.getByProject reads the server's list
FetchDeps ==
    /\ depsQuery = "stale"
    /\ depsQuery' = "fetching"
    /\ depsResp' = srvDeps
    /\ UNCHANGED <<srvVars, tasks, dependencies, nodes, edges, layoutVars,
                   autoLayoutEnabled, dialogVars, dragVars, otherVars, reqVars>>

\* The fetched list becomes query.data.  When it differs from the data held,
\* the view renders with the new `dependencies`: the edge sync effect calls
\* setEdges and the auto-layout effect runs with the edges of that render;
\* the render caused by setEdges runs the auto-layout effect again when
\* edgesCount changed.
DeliverDeps ==
    /\ depsQuery = "fetching"
    /\ depsQuery' = "idle"
    /\ depsResp' = {}
    /\ dependencies' = depsResp
    /\ IF depsResp = dependencies
       THEN UNCHANGED <<nodes, edges, layoutVars>>
       ELSE LET nodesCount == Cardinality(DOMAIN nodes)
                newEdges == syncEdges(edges, depsResp)
                v1 == autoLayoutEffect(View(nodes), nodesCount,
                          Cardinality(edges), autoLayoutEnabled, tasks, depsResp)
                v2 == IF Cardinality(newEdges) # Cardinality(edges)
                      THEN autoLayoutEffect(v1, nodesCount,
                               Cardinality(newEdges), autoLayoutEnabled,
                               tasks, depsResp)
                      ELSE v1
            IN  /\ edges' = newEdges
                /\ SetView(v2)
                /\ UNCHANGED initialLayouts
    /\ UNCHANGED <<srvVars, tasks, autoLayoutEnabled, dialogVars, dragVars, otherVars, reqVars>>

\* The parent hands down a new `tasks` list (the server's current tasks).
\* The node sync effect calls setNodes(layoutNodes(dagTasks)) and the
\* auto-layout effect runs with the nodes of that render; the render caused
\* by setNodes runs the auto-layout effect again when nodesCount changed.
DeliverTasks ==
    LET newTasks == [t \in srvTasks |-> srvPos[t]]
        newNodes == layoutNodes(newTasks, dagTasks(newTasks))
        edgesCount == Cardinality(edges)
        v1 == autoLayoutEffect(View(newNodes), Cardinality(DOMAIN nodes),
                  edgesCount, autoLayoutEnabled, newTasks, dependencies)
        v2 == IF Cardinality(DOMAIN v1.nodes) # Cardinality(DOMAIN nodes)
              THEN autoLayoutEffect(v1, Cardinality(DOMAIN v1.nodes),
                       edgesCount, autoLayoutEnabled, newTasks, dependencies)
              ELSE v1
    IN  /\ newTasks # tasks
        /\ tasks' = newTasks
        /\ SetView(v2)
        /\ UNCHANGED <<srvVars, queryVars, edges, initialLayouts,
                       autoLayoutEnabled, dialogVars, dragVars, otherVars, reqVars>>

\* ------------------------------------------------------------------ layout
\* the 100 ms timer armed by the initial layout branch of the effect
LayoutTimerFires ==
    /\ layoutTimer
    /\ layoutTimer' = FALSE
    /\ nodes' = applyAutoLayout(layoutNodes(tasks, dagTasks(tasks)),
                                createEdges(dependencies))
    /\ initialLayouts' = initialLayouts + 1
    /\ UNCHANGED <<srvVars, tasks, queryVars, edges, prevDepsCountRef,
                   initialLayoutAppliedRef, autoLayoutEnabled, dialogVars,
                   dragVars, otherVars, reqVars>>

\* the toggle button: setAutoLayoutEnabled(!autoLayoutEnabled); the effect
\* depends on autoLayoutEnabled and runs again
ToggleAutoLayout ==
    /\ autoLayoutEnabled' = ~autoLayoutEnabled
    /\ SetView(autoLayoutEffect(View(nodes), Cardinality(DOMAIN nodes),
                   Cardinality(edges), ~autoLayoutEnabled, tasks, dependencies))
    /\ UNCHANGED <<srvVars, tasks, queryVars, edges, initialLayouts,
                   dialogVars, dragVars, otherVars, reqVars>>

\* a layout button that only works while auto-layout is on
onAutoLayoutWhenEnabled ==
    /\ autoLayoutEnabled
    /\ nodes' = applyAutoLayout(nodes, edges)
    /\ UNCHANGED <<srvVars, tasks, queryVars, edges, layoutVars,
                   autoLayoutEnabled, dialogVars, dragVars, otherVars, reqVars>>

\* the layout button
onAutoLayout ==
    /\ nodes' = applyAutoLayout(nodes, edges)
    /\ UNCHANGED <<srvVars, tasks, queryVars, edges, layoutVars,
                   autoLayoutEnabled, dialogVars, dragVars, otherVars, reqVars>>

\* --------------------------------------------------------------- gestures
\* onConnect that also adds the edge to the local edge state at once
onConnectOptimistic(source, target) ==
    /\ IF source = null \/ target = null
       THEN NoSend /\ UNCHANGED edges
       ELSE /\ Room(1)
            /\ Send({CreateReq(target, source)})
            /\ edges' = edges \cup
                 {[id |-> <<"tmp-", sent>>, source |-> source, target |-> target]}
    /\ UNCHANGED <<srvVars, tasks, queryVars, nodes, layoutVars,
                   autoLayoutEnabled, dialogVars, dragVars, otherVars>>

\* onConnect(connection): source and target are node ids or null
onConnect(source, target) ==
    /\ IF source = null \/ target = null
       THEN NoSend
       ELSE /\ Room(1)
            /\ Send({CreateReq(target, source)})
    /\ UNCHANGED <<srvVars, tasks, queryVars, nodes, edges, layoutVars,
                   autoLayoutEnabled, dialogVars, dragVars, otherVars>>

\* handleDrop with the two ends of the dependency exchanged
handleDropInverted(taskId, targetNodeId) ==
    /\ IF taskId = EmptyId \/ taskId \notin poolTasks(tasks)
       THEN NoSend
       ELSE LET update == UpdateReq(taskId, DropX, DropY, FALSE)
                create == IF targetNodeId # null /\ targetNodeId # taskId
                          THEN {CreateReq(targetNodeId, taskId)}
                          ELSE {}
            IN  /\ Room(1 + Cardinality(create))
                /\ Send({update} \cup create)
    /\ UNCHANGED <<srvVars, tasks, queryVars, nodes, edges, layoutVars,
                   autoLayoutEnabled, dialogVars, dragVars, otherVars>>

\* handleDrop without the lookup of the carried id among the pool tasks
handleDropUnchecked(taskId, targetNodeId) ==
    /\ IF taskId = EmptyId
       THEN NoSend
       ELSE LET update == UpdateReq(taskId, DropX, DropY, FALSE)
                create == IF targetNodeId # null /\ targetNodeId # taskId
                          THEN {CreateReq(taskId, targetNodeId)}
                          ELSE {}
            IN  /\ Room(1 + Cardinality(create))
                /\ Send({update} \cup create)
    /\ UNCHANGED <<srvVars, tasks, queryVars, nodes, edges, layoutVars,
                   autoLayoutEnabled, dialogVars, dragVars, otherVars>>

\* handleDrop(e): taskId is what the drag carries, targetNodeId the data-id
\* of the node under the pointer (null when there is none)
handleDrop(taskId, targetNodeId) ==
    /\ IF taskId = EmptyId \/ taskId \notin poolTasks(tasks)
       THEN NoSend
       ELSE LET update == UpdateReq(taskId, DropX, DropY, FALSE)
                create == IF targetNodeId # null /\ targetNodeId # taskId
                          THEN {CreateReq(taskId, targetNodeId)}
                          ELSE {}
            IN  /\ Room(1 + Cardinality(create))
                /\ Send({update} \cup create)
    /\ UNCHANGED <<srvVars, tasks, queryVars, nodes, edges, layoutVars,
                   autoLayoutEnabled, dialogVars, dragVars, otherVars>>

\* where a drag can take a node
DragPositions == {[x |-> DropX + d, y |-> DropY + d] : d \in 1..MaxDrag}

\* onNodesChange of useNodesState with the position change the widget emits
\* while the pointer moves a node: the node takes the position, `dragging`
\* is set
onNodesChange(node, position) ==
    /\ node \in DOMAIN nodes
    /\ dragging \in {null, node}
    /\ nodes' = [nodes EXCEPT ![node] = position]
    /\ dragging' = node
    /\ UNCHANGED <<srvVars, tasks, queryVars, edges, layoutVars,
                   autoLayoutEnabled, dialogVars, dragVars, staticVars, reqVars>>

\* handleNodeDrag: the pointer is, or is not, over the sidebar
handleNodeDrag(overSidebar) ==
    /\ DOMAIN nodes # {}
    /\ isDraggingOverSidebar' = overSidebar
    /\ UNCHANGED <<srvVars, tasks, queryVars, nodes, edges, layoutVars,
                   autoLayoutEnabled, dialogVars, isDraggingOverSidebarRef,
                   reqVars, otherVars>>

\* the effect "Keep ref in sync with state"
SidebarRefEffect ==
    /\ isDraggingOverSidebarRef # isDraggingOverSidebar
    /\ isDraggingOverSidebarRef' = isDraggingOverSidebar
    /\ UNCHANGED <<srvVars, tasks, queryVars, nodes, edges, layoutVars,
                   autoLayoutEnabled, dialogVars, isDraggingOverSidebar,
                   reqVars, otherVars>>

\* handleNodeDragStop that also deletes the dependencies of the node
handleNodeDragStopCascade(node) ==
    /\ node \in DOMAIN nodes
    /\ IF isDraggingOverSidebarRef
       THEN LET touching == {e \in edges : e.source = node \/ e.target = node}
                deletes == {DeleteReq(getDependencyIdFromEdgeId(e.id)) : e \in touching}
            IN  /\ Room(1)
                /\ Send({UpdateReq(node, null, null, TRUE)} \cup deletes)
       ELSE NoSend
    /\ isDraggingOverSidebar' = FALSE
    /\ UNCHANGED <<srvVars, tasks, queryVars, nodes, edges, layoutVars,
                   autoLayoutEnabled, dialogVars, isDraggingOverSidebarRef,
                   staticVars>>

\* handleNodeDragStop(_event, node)
handleNodeDragStop(node) ==
    /\ node \in DOMAIN nodes
    /\ IF isDraggingOverSidebarRef
       THEN /\ Room(1)
            /\ Send({UpdateReq(node, null, null, TRUE)})
       ELSE NoSend
    /\ isDraggingOverSidebar' = FALSE
    /\ UNCHANGED <<srvVars, tasks, queryVars, nodes, edges, layoutVars,
                   autoLayoutEnabled, dialogVars, isDraggingOverSidebarRef,
                   staticVars>>

\* ----------------------------------------------------------- edge deletion
\* confirmDelete without setEdgeToDelete(null)
confirmDeleteKeepsPending ==
    /\ deleteDialogOpen
    /\ IF edgeToDelete # NoEdge /\ getDependencyIdFromEdgeId(edgeToDelete) # null
       THEN /\ Room(1)
            /\ Send({DeleteReq(getDependencyIdFromEdgeId(edgeToDelete))})
       ELSE NoSend
    /\ deleteDialogOpen' = FALSE
    /\ UNCHANGED <<srvVars, tasks, queryVars, nodes, edges, layoutVars,
                   autoLayoutEnabled, edgeToDelete, dragVars, otherVars>>

\* the delete button of an edge
handleEdgeDelete(edgeId) ==
    /\ edgeId \in {e.id : e \in edges}
    /\ ~deleteDialogOpen
    /\ edgeToDelete' = edgeId
    /\ deleteDialogOpen' = TRUE
    /\ UNCHANGED <<srvVars, tasks, queryVars, nodes, edges, layoutVars,
                   autoLayoutEnabled, dragVars, otherVars, reqVars>>

confirmDelete ==
    /\ deleteDialogOpen
    /\ IF edgeToDelete # NoEdge /\ getDependencyIdFromEdgeId(edgeToDelete) # null
       THEN /\ Room(1)
            /\ Send({DeleteReq(getDependencyIdFromEdgeId(edgeToDelete))})
       ELSE NoSend
    /\ deleteDialogOpen' = FALSE
    /\ edgeToDelete' = NoEdge
    /\ UNCHANGED <<srvVars, tasks, queryVars, nodes, edges, layoutVars,
                   autoLayoutEnabled, dragVars, otherVars>>

cancelDelete ==
    /\ deleteDialogOpen
    /\ deleteDialogOpen' = FALSE
    /\ edgeToDelete' = NoEdge
    /\ UNCHANGED <<srvVars, tasks, queryVars, nodes, edges, layoutVars,
                   autoLayoutEnabled, dragVars, otherVars, reqVars>>

\* onEdgesChange that hands the removal to defaultOnEdgesChange as well
onEdgesChangeApplied(removalId) ==
    /\ removalId \in {e.id : e \in edges}
    /\ IF getDependencyIdFromEdgeId(removalId) # null
       THEN /\ Room(1)
            /\ Send({DeleteReq(getDependencyIdFromEdgeId(removalId))})
       ELSE NoSend
    /\ edges' = {e \in edges : e.id # removalId}
    /\ UNCHANGED <<srvVars, tasks, queryVars, nodes, layoutVars,
                   autoLayoutEnabled, dialogVars, dragVars, otherVars>>

\* onEdgesChange with one change of type 'remove' (the widget's own
\* deletion of a selected edge): the removal is not applied to `edges`
onEdgesChange(removalId) ==
    /\ removalId \in {e.id : e \in edges}
    /\ IF getDependencyIdFromEdgeId(removalId) # null
       THEN /\ Room(1)
            /\ Send({DeleteReq(getDependencyIdFromEdgeId(removalId))})
       ELSE NoSend
    /\ UNCHANGED <<srvVars, tasks, queryVars, nodes, edges, layoutVars,
                   autoLayoutEnabled, dialogVars, dragVars, otherVars>>

\* ------------------------------------------------------ persistence service
\* the Acyclicity Guard of the service: the proposed edge from -> to is a
\* self-dependency, a duplicate, or closes a cycle
Conflict(deps, from, to) ==
    \/ from = to
    \/ <<from, to>> \in DepPairs(deps)
    \/ Path(DepPairs(deps), to, from)

Answered(req) ==
    /\ inflight' = inflight (-) SetToBag({req})
    /\ UNCHANGED sent

\* createDependency accepted: the service stores the edge, the mutation's
\* onSuccess invalidates the dependency query
CreateSucceeds(req) ==
    /\ req \in Pending("create")
    /\ {req.task_id, req.depends_on_task_id} \subseteq srvTasks
    /\ ~Conflict(srvDeps, req.depends_on_task_id, req.task_id)
    /\ srvDeps' = srvDeps \cup
           {[id |-> srvNextId, task_id |-> req.task_id,
             depends_on_task_id |-> req.depends_on_task_id]}
    /\ srvNextId' = srvNextId + 1
    /\ Answered(req)
    /\ Invalidated
    /\ UNCHANGED <<alerted, alerts>>
    /\ UNCHANGED <<srvTasks, srvPos, tasks, dependencies, nodes, edges,
                   layoutVars, autoLayoutEnabled,
                   dialogVars, dragVars, otherVars>>

\* a rejection that rolls back an edge the view never added: the edges of
\* the rejected pair are taken out of the local edge state
CreateConflictsRollback(req) ==
    /\ req \in Pending("create")
    /\ Conflict(srvDeps, req.depends_on_task_id, req.task_id)
    /\ Answered(req)
    /\ alerted' = "Cannot create dependency"
    /\ alerts' = alerts + 1
    /\ edges' = {e \in edges : ~(e.source = req.depends_on_task_id
                                  /\ e.target = req.task_id)}
    /\ UNCHANGED <<srvVars, tasks, queryVars, nodes, layoutVars,
                   autoLayoutEnabled, dialogVars, dragVars, otherVars>>

\* a rejection that invalidates the dependency query as a success does
CreateConflictsInvalidating(req) ==
    /\ req \in Pending("create")
    /\ Conflict(srvDeps, req.depends_on_task_id, req.task_id)
    /\ Answered(req)
    /\ alerted' = "Cannot create dependency"
    /\ alerts' = alerts + 1
    /\ Invalidated
    /\ UNCHANGED <<srvVars, tasks, dependencies, nodes, edges, layoutVars,
                   autoLayoutEnabled, dialogVars, dragVars, otherVars>>

\* a 409 that is not reported to the user
CreateConflictsUnreported(req) ==
    /\ req \in Pending("create")
    /\ Conflict(srvDeps, req.depends_on_task_id, req.task_id)
    /\ Answered(req)
    /\ UNCHANGED <<alerted, alerts>>
    /\ UNCHANGED <<srvVars, tasks, queryVars, nodes, edges, layoutVars,
                   autoLayoutEnabled, dialogVars, dragVars, otherVars>>

\* createDependency answered with HTTP 409: onError reports it, nothing else
CreateConflicts(req) ==
    /\ req \in Pending("create")
    /\ Conflict(srvDeps, req.depends_on_task_id, req.task_id)
    /\ Answered(req)
    /\ alerted' = "Cannot create dependency"
    /\ alerts' = alerts + 1
    /\ UNCHANGED <<srvVars, tasks, queryVars, nodes, edges, layoutVars,
                   autoLayoutEnabled, dialogVars, dragVars, otherVars>>

\* deleteDependency accepted: onSuccess invalidates the dependency query
DeleteSucceeds(req) ==
    /\ req \in Pending("delete")
    /\ \E d \in srvDeps : d.id = req.id
    /\ srvDeps' = {d \in srvDeps : d.id # req.id}
    /\ Answered(req)
    /\ Invalidated
    /\ UNCHANGED <<alerted, alerts>>
    /\ UNCHANGED <<srvTasks, srvPos, srvNextId, tasks, dependencies, nodes,
                   edges, layoutVars, autoLayoutEnabled,
                   dialogVars, dragVars, otherVars>>

\* updateTask accepted: the position is stored, or cleared
UpdateSucceeds(req) ==
    /\ req \in Pending("update")
    /\ req.taskId \in srvTasks
    /\ srvPos' = [srvPos EXCEPT ![req.taskId] =
                     IF req.clear_dag_position THEN NoPos
                     ELSE [x |-> req.dag_position_x, y |-> req.dag_position_y]]
    /\ Answered(req)
    /\ UNCHANGED <<alerted, alerts>>
    /\ UNCHANGED <<srvTasks, srvDeps, srvNextId, tasks, queryVars, nodes,
                   edges, layoutVars, autoLayoutEnabled,
                   dialogVars, dragVars, otherVars>>

\* a failure that is swallowed: the request is dropped and nothing is shown
RequestFailsSilently(req) ==
    /\ req \in BagToSet(inflight)
    /\ Answered(req)
    /\ UNCHANGED <<alerted, alerts>>
    /\ UNCHANGED <<srvVars, tasks, queryVars, nodes, edges, layoutVars,
                   autoLayoutEnabled, dialogVars, dragVars, otherVars>>

\* any request may fail without effect on the service (network failure,
\* unknown task or dependency); the onError of createDependency and of
\* deleteDependency reports it, nothing is invalidated
RequestFails(req) ==
    /\ req \in BagToSet(inflight)
    /\ Answered(req)
    /\ alerted' = CASE req.op = "create" -> "Failed to create dependency"
                    [] req.op = "delete" -> "Failed to delete dependency"
                    [] OTHER -> alerted
    /\ alerts' = IF req.op \in {"create", "delete"} THEN alerts + 1 ELSE alerts
    /\ UNCHANGED <<srvVars, tasks, queryVars, nodes, edges, layoutVars,
                   autoLayoutEnabled, dialogVars, dragVars, otherVars>>

\* ----------------------------------------------------------- specification
Requests ==
    {CreateReq(a, b) : a \in Tasks, b \in Tasks}
        \cup {DeleteReq(i) : i \in DepIds}
        \cup {UpdateReq(t, DropX, DropY, FALSE) : t \in Tasks}
        \cup {UpdateReq(t, null, null, TRUE) : t \in Tasks}

\* the server's answers, the dependency query and the task list
Environment ==
    \/ FetchDeps
    \/ DeliverDeps
    \/ DeliverTasks
    \/ LayoutTimerFires
    \/ \E req \in Requests : CreateSucceeds(req)
    \/ \E req \in Requests : CreateConflicts(req)
    \/ \E req \in Requests : DeleteSucceeds(req)
    \/ \E req \in Requests : UpdateSucceeds(req)
    \/ \E req \in Requests : RequestFails(req)

Connects ==
    \E s \in Tasks \cup {null}, t \in Tasks \cup {null} :
        /\ {s, t} \subseteq DOMAIN nodes \cup {null}
        /\ onConnect(s, t)

Drops ==
    \E taskId \in Tasks \cup {EmptyId}, n \in Tasks \cup {null} :
        /\ n \in DOMAIN nodes \cup {null}
        /\ handleDrop(taskId, n)

EdgeRemovals ==
    \E i \in DepIds : onEdgesChange(createEdgeIdFromDependency([id |-> i]))

\* The dependency and placement gestures, auto-layout left switched on.
Next ==
    \/ Environment
    \/ Refetch
    \/ Connects
    \/ Drops
    \/ \E over \in BOOLEAN : handleNodeDrag(over)
    \/ SidebarRefEffect
    \/ \E n \in Tasks : handleNodeDragStop(n) /\ UNCHANGED dragging
    \/ \E i \in DepIds : handleEdgeDelete(createEdgeIdFromDependency([id |-> i]))
    \/ confirmDelete
    \/ cancelDelete
    \/ EdgeRemovals

Spec == Init /\ [][Next]_vars

\* the pointer is released: the widget clears `dragging` and calls
\* handleNodeDragStop with the dragged node
NodeDragStop(node) ==
    /\ dragging = node
    /\ dragging' = null
    /\ handleNodeDragStop(node)

\* Dragging nodes over the canvas and onto the sidebar.
NextDrag ==
    \/ FetchDeps
    \/ DeliverDeps
    \/ DeliverTasks
    \/ \E req \in Requests : UpdateSucceeds(req)
    \/ \E req \in Requests : RequestFails(req)
    \/ \E n \in Tasks, position \in DragPositions : onNodesChange(n, position)
    \/ \E over \in BOOLEAN : dragging # null /\ handleNodeDrag(over)
    \/ SidebarRefEffect
    \/ \E n \in Tasks : NodeDragStop(n)

SpecDrag == Init /\ [][NextDrag]_vars

\* A task is deleted outside the view: the service drops the task and every
\* dependency that names it
TaskDeleted(t) ==
    /\ t \in srvTasks
    /\ srvTasks' = srvTasks \ {t}
    /\ srvDeps' = {d \in srvDeps : d.task_id # t /\ d.depends_on_task_id # t}
    /\ UNCHANGED <<srvPos, srvNextId, tasks, queryVars, nodes, edges,
                   layoutVars, autoLayoutEnabled, dialogVars, dragVars,
                   otherVars, reqVars>>

\* The dependency and placement gestures while tasks are deleted.
NextDelete ==
    \/ Environment
    \/ Connects
    \/ Drops
    \/ EdgeRemovals
    \/ \E t \in Tasks : TaskDeleted(t)

SpecDelete == Init /\ [][NextDelete]_vars

\* ------------------------------------------------- the layout call alone
\* node arrays as the views build them: tasks.map gives each task one node,
\* so the ids of an array are distinct; any order, any subset of the tasks
NodeLists ==
    {l \in UNION {[1..k -> Tasks] : k \in 0..NumTasks} :
        \A i \in 1..Len(l), j \in 1..Len(l) : l[i] = l[j] => i = j}

\* edge arrays: any set of edges between tasks, whether or not both ends
\* are in the node array
EdgeSets ==
    {createEdges(ds) :
        ds \in SUBSET {[id |-> (a - 1) * NumTasks + b, task_id |-> b,
                        depends_on_task_id |-> a] : a \in Tasks, b \in Tasks}}

InitDagLayout ==
    /\ Init
    /\ srvPos = [t \in Tasks |-> NoPos]

\* the caller hands a node array, an edge array and a direction over
CallLayout(l, es, direction) ==
    /\ layoutArgs = <<>>
    /\ layoutArgs' = <<[i \in 1..Len(l) |-> ListNode(l[i], [x |-> DropX, y |-> DropY])],
                       es, direction>>
    /\ UNCHANGED <<srvVars, tasks, queryVars, nodes, edges, layoutVars,
                   autoLayoutEnabled, dialogVars, dragVars, dragging,
                   isLayouting, hasInitialized, layoutResult, reqVars>>

\* getLayoutedElements returns
ReturnLayout ==
    /\ layoutArgs # <<>>
    /\ layoutResult = <<>>
    /\ layoutResult' = <<getLayoutedNodeList(layoutArgs[1], layoutArgs[2],
                                             layoutArgs[3])>>
    /\ UNCHANGED <<srvVars, tasks, queryVars, nodes, edges, layoutVars,
                   autoLayoutEnabled, dialogVars, dragVars, dragging,
                   isLayouting, hasInitialized, layoutArgs, reqVars>>

NextDagLayout ==
    \/ \E l \in NodeLists, es \in EdgeSets, direction \in {"TB", "LR"} :
          CallLayout(l, es, direction)
    \/ ReturnLayout

SpecDagLayout == InitDagLayout /\ [][NextDagLayout]_vars

\* ------------------------------------------------------------- TaskDagView
\* The view that shows every task as a node and saves node positions.
\* initialNodes of the useMemo: a task without a position stands at (0, 0)
initialNodes(ts) ==
    [t \in DOMAIN ts |-> [x |-> Coalesce(ts[t].x, 0), y |-> Coalesce(ts[t].y, 0)]]

initialEdges(deps) ==
    {[id |-> dep.id, source |-> dep.depends_on_task_id, target |-> dep.task_id] :
        dep \in deps}

\* the variables of savePositionMutation.mutate / mutateAsync; all tells
\* whether the promise is one of those handed to Promise.all
SavePositionReq(task, px, py, all) ==
    [op |-> "save", taskId |-> task, dag_position_x |-> px,
     dag_position_y |-> py, all |-> all]

hasNoPositions(ts) == \A t \in DOMAIN ts : ts[t].x = null /\ ts[t].y = null

\* the effect "Auto-layout on initial render if no positions are set":
\* setHasInitialized(true) renders again, the cleanup of the effect clears
\* the timer it has just set, and the run that follows returns at once; what
\* is left of the effect is the new value of hasInitialized
initialLayoutEffect(has, ts) ==
    has \/ (hasNoPositions(ts) /\ DOMAIN ts # {})

InitDagView ==
    /\ srvTasks = Tasks
    /\ srvPos \in {[t \in Tasks |-> NoPos],
                   [t \in Tasks |-> [x |-> DropX, y |-> DropY]],
                   [t \in Tasks |-> IF t = 1 THEN [x |-> DropX, y |-> DropY] ELSE NoPos]}
    /\ srvDeps \in {{}, {[id |-> 1, task_id |-> NumTasks, depends_on_task_id |-> 1]}}
    /\ srvNextId = 2
    /\ tasks = srvPos
    /\ dependencies = srvDeps
    /\ depsQuery = "idle"
    /\ depsResp = {}
    /\ nodes = initialNodes(tasks)
    /\ edges = initialEdges(dependencies)
    /\ prevDepsCountRef = 0
    /\ initialLayoutAppliedRef = FALSE
    /\ autoLayoutEnabled = TRUE
    /\ layoutTimer = FALSE
    /\ initialLayouts = 0
    /\ deleteDialogOpen = FALSE
    /\ edgeToDelete = NoEdge
    /\ isDraggingOverSidebar = FALSE
    /\ isDraggingOverSidebarRef = FALSE
    /\ inflight = EmptyBag
    /\ alerted = "none"
    /\ alerts = 0
    /\ sent = 0
    /\ dragging = null
    /\ isLayouting = FALSE
    /\ hasInitialized = initialLayoutEffect(FALSE, tasks)
    /\ layoutArgs = <<>>
    /\ layoutResult = <<>>

\* onAutoLayout of TaskDagView (the button is disabled while isLayouting):
\* the nodes are laid out top to bottom and one write per node is started
TaskDagView_onAutoLayout ==
    LET layoutedNodes == getLayoutedElementsSpaced(nodes, edges, "TB",
                             NODE_SPACING_TB, RANK_SPACING_TB)
        writes == {SavePositionReq(n, layoutedNodes[n].x, layoutedNodes[n].y, TRUE) :
                       n \in DOMAIN layoutedNodes}
    IN  /\ ~isLayouting
        /\ dragging = null
        /\ Room(Cardinality(writes))
        /\ isLayouting' = TRUE
        /\ nodes' = layoutedNodes
        /\ Send(writes)
        /\ UNCHANGED <<srvVars, tasks, queryVars, edges, layoutVars,
                       autoLayoutEnabled, dialogVars, dragVars, dragging,
                       hasInitialized, layoutArgs, layoutResult>>

\* the pointer is released: the widget clears `dragging` and onNodeDragStop
\* saves the position of the node
onNodeDragStop(node) ==
    /\ dragging = node
    /\ dragging' = null
    /\ Room(1)
    /\ Send({SavePositionReq(node, nodes[node].x, nodes[node].y, FALSE)})
    /\ UNCHANGED <<srvVars, tasks, queryVars, nodes, edges, layoutVars,
                   autoLayoutEnabled, dialogVars, dragVars, staticVars>>

\* the promises of Promise.all that are still pending once req is settled
PendingOfAll(req) ==
    {r \in BagToSet(inflight (-) SetToBag({req})) : r.op = "save" /\ r.all}

\* tasksApi.update accepted: the position is stored; when it was the last
\* pending promise of Promise.all, finally sets isLayouting to false
savePositionSucceeds(req) ==
    /\ req \in Pending("save")
    /\ req.taskId \in srvTasks
    /\ srvPos' = [srvPos EXCEPT ![req.taskId] =
                     [x |-> req.dag_position_x, y |-> req.dag_position_y]]
    /\ Answered(req)
    /\ isLayouting' = IF req.all /\ PendingOfAll(req) = {} THEN FALSE
                      ELSE isLayouting
    /\ UNCHANGED <<alerted, alerts>>
    /\ UNCHANGED <<srvTasks, srvDeps, srvNextId, tasks, queryVars, nodes,
                   edges, layoutVars, autoLayoutEnabled, dialogVars, dragVars,
                   dragging, hasInitialized, layoutArgs, layoutResult>>

\* a failed write that puts the nodes back where the task list has them
savePositionFailsReverting(req) ==
    /\ req \in Pending("save")
    /\ Answered(req)
    /\ isLayouting' = IF req.all THEN FALSE ELSE isLayouting
    /\ nodes' = initialNodes(tasks)
    /\ UNCHANGED <<alerted, alerts>>
    /\ UNCHANGED <<srvVars, tasks, queryVars, edges, layoutVars,
                   autoLayoutEnabled, dialogVars, dragVars, dragging,
                   hasInitialized, layoutArgs, layoutResult>>

\* tasksApi.update rejected: the mutation has no retry and no onError; the
\* rejection of a promise of Promise.all settles it, so finally sets
\* isLayouting to false; nothing else happens
savePositionFails(req) ==
    /\ req \in Pending("save")
    /\ Answered(req)
    /\ isLayouting' = IF req.all THEN FALSE ELSE isLayouting
    /\ UNCHANGED <<alerted, alerts>>
    /\ UNCHANGED <<srvVars, tasks, queryVars, nodes, edges, layoutVars,
                   autoLayoutEnabled, dialogVars, dragVars, dragging,
                   hasInitialized, layoutArgs, layoutResult>>

\* a new `tasks` prop: the effect "Update nodes when tasks or selection
\* changes" maps over the current nodes and keeps each node's position
TaskDagView_DeliverTasks ==
    LET newTasks == [t \in srvTasks |-> srvPos[t]]
    IN  /\ newTasks # tasks
        /\ tasks' = newTasks
        /\ nodes' = [n \in DOMAIN nodes |-> nodes[n]]
        /\ hasInitialized' = initialLayoutEffect(hasInitialized, newTasks)
        /\ UNCHANGED <<srvVars, queryVars, edges, layoutVars,
                       autoLayoutEnabled, dialogVars, dragVars, dragging,
                       isLayouting, layoutArgs, layoutResult, reqVars>>

NextDagView ==
    \/ TaskDagView_onAutoLayout
    \/ \E n \in Tasks, position \in DragPositions : onNodesChange(n, position)
    \/ \E n \in Tasks : onNodeDragStop(n)
    \/ \E req \in BagToSet(inflight) : savePositionSucceeds(req)
    \/ \E req \in BagToSet(inflight) : savePositionFails(req)
    \/ TaskDagView_DeliverTasks

SpecDagView == InitDagView /\ [][NextDagView]_vars

\* ---------------------------------------- TaskDagView, the initial layout
\* The effect "Auto-layout on initial render if no positions are set" step
\* by step. Its first run calls setHasInitialized(true) and arms the 100 ms
\* timer; the render that setHasInitialized asks for is scheduled at once,
\* and since hasInitialized is a dependency of the effect its cleanup
\* (clearTimeout) runs in that render. layoutTimer is the timer still armed,
\* initialLayouts counts the calls of onAutoLayout made by the timer.
InitDagViewMounted ==
    /\ srvTasks = Tasks
    /\ srvPos \in {[t \in Tasks |-> NoPos],
                   [t \in Tasks |-> [x |-> DropX, y |-> DropY]],
                   [t \in Tasks |-> IF t = 1 THEN [x |-> DropX, y |-> DropY] ELSE NoPos]}
    /\ srvDeps \in {{}, {[id |-> 1, task_id |-> NumTasks, depends_on_task_id |-> 1]}}
    /\ srvNextId = 2
    /\ tasks = srvPos
    /\ dependencies = srvDeps
    /\ depsQuery = "idle"
    /\ depsResp = {}
    /\ nodes = initialNodes(tasks)
    /\ edges = initialEdges(dependencies)
    /\ prevDepsCountRef = 0
    /\ initialLayoutAppliedRef = FALSE
    /\ autoLayoutEnabled = TRUE
    /\ layoutTimer = (hasNoPositions(tasks) /\ DOMAIN tasks # {})
    /\ initialLayouts = 0
    /\ deleteDialogOpen = FALSE
    /\ edgeToDelete = NoEdge
    /\ isDraggingOverSidebar = FALSE
    /\ isDraggingOverSidebarRef = FALSE
    /\ inflight = EmptyBag
    /\ alerted = "none"
    /\ alerts = 0
    /\ sent = 0
    /\ dragging = null
    /\ isLayouting = FALSE
    /\ hasInitialized = initialLayoutEffect(FALSE, tasks)
    /\ layoutArgs = <<>>
    /\ layoutResult = <<>>

\* the render asked for by setHasInitialized(true): the cleanup of the
\* effect clears the timer, and the effect returns at `if (hasInitialized)`
TaskDagView_initialLayoutCleanup ==
    /\ layoutTimer
    /\ hasInitialized
    /\ layoutTimer' = FALSE
    /\ UNCHANGED <<srvVars, tasks, queryVars, nodes, edges, prevDepsCountRef,
                   initialLayoutAppliedRef, initialLayouts, autoLayoutEnabled,
                   dialogVars, dragVars, otherVars, reqVars>>

\* the timer comes due while it is still armed: onAutoLayout() of the first
\* render runs
TaskDagView_initialLayoutTimer ==
    LET layoutedNodes == getLayoutedElementsSpaced(nodes, edges, "TB",
                             NODE_SPACING_TB, RANK_SPACING_TB)
        writes == {SavePositionReq(n, layoutedNodes[n].x, layoutedNodes[n].y, TRUE) :
                       n \in DOMAIN layoutedNodes}
    IN  /\ layoutTimer
        /\ Room(Cardinality(writes))
        /\ layoutTimer' = FALSE
        /\ initialLayouts' = initialLayouts + 1
        /\ isLayouting' = TRUE
        /\ nodes' = layoutedNodes
        /\ Send(writes)
        /\ UNCHANGED <<srvVars, tasks, queryVars, edges, prevDepsCountRef,
                       initialLayoutAppliedRef, autoLayoutEnabled, dialogVars,
                       dragVars, dragging, hasInitialized, layoutArgs,
                       layoutResult>>

\* The gestures and the answers wait for the timer to be settled: the render
\* is scheduled as soon as the effect has run, before any of them.
NextDagViewMounted ==
    \/ TaskDagView_initialLayoutCleanup
    \/ TaskDagView_initialLayoutTimer
    \/ (~layoutTimer /\ NextDagView)

\* React runs the render it has scheduled, the browser runs a timer that
\* stays armed
SpecDagViewMounted ==
    /\ InitDagViewMounted
    /\ [][NextDagViewMounted]_vars
    /\ WF_vars(TaskDagView_initialLayoutCleanup)
    /\ WF_vars(TaskDagView_initialLayoutTimer)

\* The layout controls, with the gestures that make nodes and edges appear
\* and disappear.
NextLayout ==
    \/ Environment
    \/ Connects
    \/ Drops
    \/ EdgeRemovals
    \/ ToggleAutoLayout
    \/ onAutoLayout

SpecLayout == Init /\ [][NextLayout]_vars

\* ------------------------------------------------------- the delete dialog
\* <Dialog open={deleteDialogOpen} onOpenChange={setDeleteDialogOpen}>: the
\* dialog is dismissed (Escape, a click outside, its close button) and calls
\* onOpenChange(false); edgeToDelete is left as it is
onOpenChange(open) ==
    /\ deleteDialogOpen
    /\ deleteDialogOpen' = open
    /\ UNCHANGED <<srvVars, tasks, queryVars, nodes, edges, layoutVars,
                   autoLayoutEnabled, edgeToDelete, dragVars, otherVars, reqVars>>

\* Drawing and deleting dependencies between the placed tasks.
NextDialog ==
    \/ FetchDeps
    \/ DeliverDeps
    \/ \E req \in Requests : CreateSucceeds(req)
    \/ \E req \in Requests : CreateConflicts(req)
    \/ \E req \in Requests : DeleteSucceeds(req)
    \/ \E req \in Requests : RequestFails(req)
    \/ Connects
    \/ \E i \in DepIds : handleEdgeDelete(createEdgeIdFromDependency([id |-> i]))
    \/ confirmDelete
    \/ cancelDelete
    \/ onOpenChange(FALSE)
    \/ EdgeRemovals

SpecDialog == Init /\ [][NextDialog]_vars

\* Drawing and removing dependencies with the dependency query making
\* progress: an invalidated active query is refetched by react-query, and the
\* list request that dependenciesApi.getByProject sends is answered.
NextRefresh ==
    \/ Refetch
    \/ FetchDeps
    \/ DeliverDeps
    \/ \E req \in Requests : CreateSucceeds(req)
    \/ \E req \in Requests : CreateConflicts(req)
    \/ \E req \in Requests : DeleteSucceeds(req)
    \/ \E req \in Requests : RequestFails(req)
    \/ Connects
    \/ EdgeRemovals

SpecRefresh ==
    /\ Init
    /\ [][NextRefresh]_vars
    /\ WF_vars(FetchDeps)
    /\ WF_vars(DeliverDeps)

\* ------------------------------------------------------------------ claims
\* requests of kind op that this step sends
NewlySent(op) ==
    {r \in Requests : r.op = op /\ CopiesIn(r, inflight') > CopiesIn(r, inflight)}

\* this step answers the create request req with a rejection
Rejected(req) ==
    /\ req \in Pending("create")
    /\ inflight' = inflight (-) SetToBag({req})
    /\ srvDeps' = srvDeps

UniquePairs(es) ==
    \A e1 \in es, e2 \in es :
        (e1.source = e2.source /\ e1.target = e2.target) => e1 = e2

\* C1: the edge set held by the view never contains a directed cycle, and a
\* step that rejects an edge addition leaves the edge set as it was.
C1_AcyclicEdges ==
    /\ [](~HasCycle(Pairs(edges)))
    /\ [][edges' # edges => ~(\E req \in Requests : Rejected(req))]_vars

\* a creation has been rejected with 409 and the view shows its edges
C1_Witness ==
    /\ alerted = "Cannot create dependency"
    /\ edges # {}
    /\ inflight = EmptyBag

\* C2: a connection from a task to itself is rejected before any I/O, so no
\* create request with identical endpoints is ever in flight.
C2_NoSelfDependencyRequest ==
    \A r \in Pending("create") : r.task_id # r.depends_on_task_id

C5_RejectionKeepsEdges ==
    /\ [][(inflight' # inflight /\ \E req \in Requests : Rejected(req))
            => UNCHANGED <<edges, dependencies, depsQuery, depsResp>>]_vars
    /\ [][(sent' # sent /\ NewlySent("create") # {}) => edges' = edges]_vars

\* a 409 has been reported while the query is idle and the edges are those
\* of the service
C5_Witness ==
    /\ alerted = "Cannot create dependency"
    /\ depsQuery = "idle"
    /\ edges = createEdges(srvDeps)
    /\ edges # {}

C7_ClearOnlyPosition ==
    [][\A t \in Tasks :
          (sent' # sent /\ UpdateReq(t, null, null, TRUE) \in NewlySent("update"))
          => /\ inflight' = inflight (+) SetToBag({UpdateReq(t, null, null, TRUE)})
             /\ NewlySent("delete") = {}
             /\ t \in DOMAIN nodes
             /\ UNCHANGED <<srvVars, tasks, dependencies, nodes, edges>>]_vars

\* the position of a task that dependencies touch is being cleared
C7_Witness ==
    \E r \in Pending("update") :
        /\ r.clear_dag_position
        /\ \E e \in edges : r.taskId \in {e.source, e.target}
        /\ \E d \in srvDeps : r.taskId \in {d.task_id, d.depends_on_task_id}

\* the view has caught up with the service: nothing is in flight and the
\* lists it holds are the service's
Settled ==
    /\ inflight = EmptyBag
    /\ depsQuery = "idle"
    /\ dependencies = srvDeps
    /\ tasks = srvPos
    /\ ~layoutTimer

\* C8: every edge of the edge state has both ends among the nodes, and the
\* layout of the nodes is the layout computed from those edges alone; stated
\* of the settled view, where no edge is ahead of the task list.
C8_EdgesBetweenPlacedNodes ==
    Settled =>
        /\ \A e \in edges : {e.source, e.target} \subseteq DOMAIN nodes
        /\ applyAutoLayout(nodes, edges) =
              applyAutoLayout(nodes, {e \in edges :
                                        {e.source, e.target} \subseteq DOMAIN nodes})

\* C9: a drop of the pooled task taskId on the node n asks for the
\* dependency whose task_id is taskId and whose depends_on_task_id is n, and
\* for no other; a drop on no node asks for none.
C9_DropDirection ==
    [][sent' # sent =>
         \A taskId \in Tasks, n \in Tasks \cup {null} :
            handleDrop(taskId, n)
            => /\ NewlySent("create") =
                    IF n # null /\ n # taskId THEN {CreateReq(taskId, n)} ELSE {}
               /\ NewlySent("update") = {UpdateReq(taskId, DropX, DropY, FALSE)}]_vars

\* a pooled task has been dropped on a node: its position and the
\* dependency on the node are being requested
C9_Witness ==
    \E r \in Pending("create") :
        /\ r.task_id \in poolTasks(tasks)
        /\ r.depends_on_task_id \in DOMAIN nodes
        /\ r.task_id # r.depends_on_task_id
        /\ UpdateReq(r.task_id, DropX, DropY, FALSE) \in Pending("update")

FreshLayout(ts, deps) ==
    applyAutoLayout(layoutNodes(ts, dagTasks(ts)), createEdges(deps))

\* C11: once the initial layout has been marked applied, a step in which
\* the number of dependencies held by the query changes while auto-layout
\* is on lays the graph out, and the change is consumed (the count the
\* effect remembers is the count held, so no later run lays out again for
\* it); while auto-layout is off the timer is not armed and the nodes
\* change only by the sync with a new task list or by the layout button,
\* and the toggle itself lays nothing out.
C11_LayoutOnDependencyCountChange ==
    /\ [](prevDepsCountRef = Cardinality(dependencies))
    /\ [](~autoLayoutEnabled => ~layoutTimer)
    /\ [][(Cardinality(dependencies') # Cardinality(dependencies)
             /\ initialLayoutAppliedRef /\ autoLayoutEnabled)
            => nodes' = FreshLayout(tasks', dependencies')]_vars
    /\ [][(nodes' # nodes /\ ~autoLayoutEnabled')
            => /\ ~autoLayoutEnabled
               /\ IF tasks' # tasks
                  THEN nodes' = layoutNodes(tasks', dagTasks(tasks'))
                  ELSE /\ dependencies' = dependencies
                       /\ nodes' = applyAutoLayout(nodes, edges)]_vars

\* after the initial layout ran, the last dependency went away with
\* auto-layout on and the nodes were laid out for the graph without edges
C11_Witness ==
    /\ initialLayouts = 1
    /\ autoLayoutEnabled
    /\ dependencies = {}
    /\ DOMAIN nodes # {}
    /\ nodes = FreshLayout(tasks, dependencies)
    /\ \E n \in DOMAIN nodes : nodes[n] # [x |-> tasks[n].x, y |-> tasks[n].y]

\* C12: the layout button can be pressed in every state, whatever the
\* auto-layout switch and the initial-layout mark say, and pressing it
\* replaces the nodes by the left-to-right layout of the nodes and edges
\* the view holds, node for node.
C12_ManualLayoutAlways ==
    /\ [](ENABLED onAutoLayout)
    /\ [][onAutoLayout
            => /\ nodes' = getLayoutedElements(nodes, edges, "LR")
               /\ DOMAIN nodes' = DOMAIN nodes
               /\ edges' = edges]_vars

\* auto-layout is off and no initial layout was ever armed, and the nodes
\* stand where the layout of the current nodes and edges puts them
C12_Witness ==
    /\ ~autoLayoutEnabled
    /\ ~initialLayoutAppliedRef
    /\ DOMAIN nodes # {}
    /\ edges # {}
    /\ nodes = getLayoutedElements(nodes, edges, "LR")

\* this step sets the nodes to a layout of the graph
LayoutApplied ==
    /\ nodes' # nodes
    /\ DOMAIN nodes' # {}
    /\ nodes' = getLayoutedElements(nodes', edges', "LR")

\* this step sends a write of the position the node n has after it
PositionWritten(n) ==
    LET req == UpdateReq(n, nodes'[n].x, nodes'[n].y, FALSE)
    IN  CopiesIn(req, inflight') > CopiesIn(req, inflight)

\* C13 as stated: a step that applies a layout, automatic or manual, sends
\* a position write for every node the layout set.
C13_LayoutIssuesPositionWrites ==
    [][LayoutApplied => \A n \in DOMAIN nodes' : PositionWritten(n)]_vars

\* C16 as stated: a new task list that says about a node what the last one
\* said (so nothing newer than the position the view holds for it) leaves
\* the position the node has in the view, set by a layout or a drag, alone.
C16_RefreshKeepsLocalPosition ==
    [][tasks' # tasks
         => \A n \in DOMAIN nodes \cap DOMAIN nodes' :
               (n \in DOMAIN tasks' /\ tasks'[n] = tasks[n])
                   => nodes'[n] = nodes[n]]_vars

FailureMessages == {"Failed to create dependency", "Failed to delete dependency"}

\* this step takes the dependency request req out of flight and leaves the
\* server's dependencies as they were: the request failed
DependencyCallFailed(req) ==
    /\ req \in Pending("create") \cup Pending("delete")
    /\ inflight' = inflight (-) SetToBag({req})
    /\ srvDeps' = srvDeps

\* C17 as stated: a failure is shown to the user only after the request
\* has been retried, so not before a second request has been sent.
C17_FailureShownAfterRetries ==
    [][(alerts' # alerts /\ alerted' \in FailureMessages) => sent >= 2]_vars

\* C17 amended: no request is ever sent again.  The step that receives
\* the failure of a dependency creation or deletion shows one message and
\* sends nothing; a message is shown in no other step; a creation rejected
\* as a conflict is shown in the same way and not sent again.
C17_FailureShownAtOnce ==
    /\ [][inflight' # inflight
            => \A req \in Requests :
                  DependencyCallFailed(req)
                      => alerts' = alerts + 1 /\ sent' = sent]_vars
    /\ [][alerts' # alerts
            => /\ alerts' = alerts + 1
               /\ sent' = sent
               /\ \E req \in Requests : DependencyCallFailed(req)]_vars
    /\ [][(alerts' # alerts /\ alerted' = "Cannot create dependency")
            => \E req \in Pending("create") :
                  /\ Conflict(srvDeps, req.depends_on_task_id, req.task_id)
                  /\ DependencyCallFailed(req)
                  /\ CopiesIn(req, inflight') = CopiesIn(req, inflight) - 1]_vars

\* the only request ever sent has failed and its failure has been shown
C17_Witness ==
    /\ sent = 1
    /\ inflight = EmptyBag
    /\ alerts = 1
    /\ alerted \in FailureMessages

\* the failure kind of the proposed edge from -> to against the
\* dependencies deps
FailureKind(deps, from, to) ==
    IF from = to THEN "SelfDependency"
    ELSE IF <<from, to>> \in DepPairs(deps) THEN "DuplicateEdge"
    ELSE IF Path(DepPairs(deps), to, from) THEN "CycleRejected"
    ELSE "PersistenceFailure"

\* the failure kinds a message names
KindsNamed(message) ==
    CASE message = "Cannot create dependency" -> {"CycleRejected", "DuplicateEdge"}
      [] message = "Failed to create dependency" -> {"PersistenceFailure"}
      [] OTHER -> {}

\* C18 as stated: the message shown for a creation rejected as a conflict
\* names the one failure kind of the rejected edge.
C18_MessageNamesFailureKind ==
    [][alerts' # alerts
         => \A req \in Requests :
               (Rejected(req) /\ alerted' = "Cannot create dependency")
                   => KindsNamed(alerted') =
                        {FailureKind(srvDeps, req.depends_on_task_id, req.task_id)}]_vars

\* C18 amended: every rejected creation produces exactly one message, in
\* the step that receives the rejection; the message tells a conflict
\* (self-dependency, duplicate or cycle, under one wording) from any other
\* failure and nothing more.
C18_OneMessagePerRejection ==
    /\ [][inflight' # inflight
            => \A req \in Requests :
                  Rejected(req)
                      => /\ alerts' = alerts + 1
                         /\ alerted' \in {"Cannot create dependency",
                                          "Failed to create dependency"}
                         /\ alerted' = "Cannot create dependency"
                              => FailureKind(srvDeps, req.depends_on_task_id,
                                             req.task_id)
                                   \in {"SelfDependency", "DuplicateEdge",
                                        "CycleRejected"}]_vars
    /\ [][alerts' # alerts => /\ alerts' = alerts + 1
                              /\ inflight' # inflight]_vars

\* one dependency exists; a second creation was rejected as a conflict and
\* the one message for it has been shown
C18_Witness ==
    /\ Cardinality(srvDeps) = 1
    /\ sent = 2
    /\ inflight = EmptyBag
    /\ alerts = 1
    /\ alerted = "Cannot create dependency"

\* C15 as stated: while a node is dragged no position write is sent, and
\* the step that ends the drag sends a write of the position the node was
\* dragged to.
C15_DragEndPersistsPosition ==
    /\ [][(dragging # null /\ dragging' # null) => sent' = sent]_vars
    /\ [][(dragging # null /\ dragging' = null)
            => LET req == UpdateReq(dragging, nodes[dragging].x,
                                    nodes[dragging].y, FALSE)
               IN  CopiesIn(req, inflight') > CopiesIn(req, inflight)]_vars

\* nothing is on its way to the view: no request, no fetch, no timer, and
\* the task list is the server's
Quiet ==
    /\ inflight = EmptyBag
    /\ depsQuery = "idle"
    /\ DOMAIN tasks = srvTasks
    /\ ~layoutTimer

\* C19 as stated, taken where it is weakest: once the view has caught up
\* with everything on its way, no edge of the view has a task that is gone
\* from the task list as its source or target.
C19_NoEdgeOfDeletedTask ==
    Quiet => \A e \in edges :
                e.source \in DOMAIN tasks /\ e.target \in DOMAIN tasks

\* C20: the node array getLayoutedElements returns is as long as the one
\* it was given and has, place for place, the id of the input node; so no
\* input node is dropped or duplicated and no edge endpoint outside the
\* input becomes a node.  Nothing but the position of a node changes.
C20_OneNodePerInputNode ==
    layoutResult # <<>>
        => LET input == layoutArgs[1]
               output == layoutResult[1]
           IN  /\ Len(output) = Len(input)
               /\ \A i \in 1..Len(input) :
                     /\ output[i].id = input[i].id
                     /\ output[i] = [input[i] EXCEPT !.position = output[i].position]
               /\ Ids(output) = Ids(input)

\* a layout has returned for a non-empty node array whose edges name a
\* task that is not in the array
C20_Witness ==
    /\ layoutResult # <<>>
    /\ Len(layoutArgs[1]) > 0
    /\ ~(Endpoints(Pairs(layoutArgs[2])) \subseteq Ids(layoutArgs[1]))
    /\ \E i \in 1..Len(layoutResult[1]) :
          layoutResult[1][i].position # layoutArgs[1][i].position

\* this step settles the write req of a layout as failed: the request
\* leaves the flight and the server keeps what it had
LayoutWriteFailed(req) ==
    /\ req \in Pending("save")
    /\ req.all
    /\ CopiesIn(req, inflight') < CopiesIn(req, inflight)
    /\ srvPos' = srvPos

\* C14 as stated: a write of a layout that fails is retried, so a request
\* for the same node and position is in flight after the step.
C14_FailedWriteRetried ==
    [][inflight' # inflight
         => \A req \in BagToSet(inflight) :
               LayoutWriteFailed(req) => CopiesIn(req, inflight') > 0]_vars

\* C14 amended: a failed write of a layout is not sent again and is not
\* reported; it touches neither the nodes nor the positions the server
\* holds, so the writes that succeeded stay as they are; requests are sent
\* only by the layout button and by the end of a drag, and the nodes change
\* only by the layout button and by a drag.
C14_FailedWriteDropped ==
    /\ [][inflight' # inflight
            => \A req \in BagToSet(inflight) :
                  LayoutWriteFailed(req)
                      => /\ inflight' = inflight (-) SetToBag({req})
                         /\ sent' = sent
                         /\ alerts' = alerts
                         /\ nodes' = nodes]_vars
    /\ [][srvPos' # srvPos
            => \E req \in Pending("save") :
                  /\ inflight' = inflight (-) SetToBag({req})
                  /\ srvPos' = [srvPos EXCEPT ![req.taskId] =
                                   [x |-> req.dag_position_x,
                                    y |-> req.dag_position_y]]
                  /\ nodes' = nodes]_vars
    /\ [][sent' # sent
            => \/ ~isLayouting /\ isLayouting'
               \/ dragging # null /\ dragging' = null]_vars
    /\ [][nodes' # nodes
            => \/ ~isLayouting /\ isLayouting'
               \/ dragging' # null]_vars

\* after a layout of two or more nodes one write has succeeded and another
\* has failed; nothing is in flight, the nodes stand as laid out, the server
\* has the laid-out position of the one and not of the other
C14_Witness ==
    /\ inflight = EmptyBag
    /\ sent = Cardinality(DOMAIN nodes)
    /\ ~isLayouting
    /\ nodes = getLayoutedElementsSpaced(nodes, edges, "TB",
                   NODE_SPACING_TB, RANK_SPACING_TB)
    /\ \E n \in DOMAIN nodes : srvPos[n] = nodes[n]
    /\ \E n \in DOMAIN nodes : srvPos[n] # nodes[n]

\* the position the returned node list gives to the node with the id n
PositionOf(nodeList, n) ==
    (CHOOSE i \in 1..Len(nodeList) : nodeList[i].id = n)

\* the edges of the call lie in rank order: the rank of every target is
\* greater than the rank of its source, and where both ends are nodes of
\* the list the target lies further along the direction of the layout
RanksFollowEdges ==
    LET input == layoutArgs[1]
        es == layoutArgs[2]
        direction == layoutArgs[3]
        output == layoutResult[1]
        vs == Ids(input) \cup Endpoints(Pairs(es))
    IN  \A e \in es :
           /\ DagreRank(vs, Pairs(es), e.target) > DagreRank(vs, Pairs(es), e.source)
           /\ {e.source, e.target} \subseteq Ids(input)
                => LET from == output[PositionOf(output, e.source)].position
                       to == output[PositionOf(output, e.target)].position
                   IN  IF direction = "TB" THEN to.y > from.y ELSE to.x > from.x

MovedTo(nodeList, p) ==
    [i \in 1..Len(nodeList) |-> [nodeList[i] EXCEPT !.position = p]]

\* C22: the layout of the returned node list, with the same edges and
\* direction, is the returned node list; and the node list given, with its
\* nodes at any other positions, has the same layout.
C22_LayoutIdempotent ==
    layoutResult # <<>>
        => /\ getLayoutedNodeList(layoutResult[1], layoutArgs[2], layoutArgs[3])
                = layoutResult[1]
           /\ \A p \in DragPositions \cup {[x |-> 0, y |-> 0]} :
                 getLayoutedNodeList(MovedTo(layoutArgs[1], p), layoutArgs[2],
                                     layoutArgs[3])
                     = layoutResult[1]

\* a layout has returned that moved the nodes of a graph with an edge
C22_Witness ==
    /\ layoutResult # <<>>
    /\ Len(layoutArgs[1]) >= 2
    /\ layoutArgs[2] # {}
    /\ \A i \in 1..Len(layoutResult[1]) :
          layoutResult[1][i].position # layoutArgs[1][i].position

\* C23 as stated: a layout call on an edge set with a directed cycle
\* returns the nodes at the positions they were given with.
C23_CycleKeepsPositions ==
    (layoutResult # <<>> /\ HasCycle(Pairs(layoutArgs[2])))
        => layoutResult[1] = layoutArgs[1]

\* C23 amended: a layout call on an edge set with a directed cycle returns
\* like any other; the edges are not examined for cycles, and every node of
\* the input comes back with computed coordinates, inside the margins, in
\* place of the ones it was given with.
C23_CycleLaidOutLikeAnyGraph ==
    /\ layoutArgs # <<>> => ENABLED ReturnLayout \/ layoutResult # <<>>
    /\ (layoutResult # <<>> /\ HasCycle(Pairs(layoutArgs[2])))
          => /\ Len(layoutResult[1]) = Len(layoutArgs[1])
             /\ \A i \in 1..Len(layoutResult[1]) :
                   /\ layoutResult[1][i].position.x >= MARGIN
                   /\ layoutResult[1][i].position.y >= MARGIN
                   /\ layoutResult[1][i].position # layoutArgs[1][i].position

\* a layout has returned for nodes on a directed cycle of two or more edges
C23_Witness ==
    /\ layoutResult # <<>>
    /\ Len(layoutArgs[1]) >= 2
    /\ \E e \in layoutArgs[2], f \in layoutArgs[2] :
          /\ e.source # e.target
          /\ f.source = e.target /\ f.target = e.source
          /\ {e.source, e.target} \subseteq Ids(layoutArgs[1])

\* the dependency the service stores for the create request req, whatever
\* id it gives it
StoredAs(req, id) ==
    [id |-> id, task_id |-> req.task_id,
     depends_on_task_id |-> req.depends_on_task_id]

StrayIds == (Tasks \cup {EmptyId}) \ poolTasks(tasks)

\* C25: a drop whose carried id is empty or names no task of the pool is
\* handled and changes nothing: it sends no position update and no
\* dependency creation and raises no alert; so every placing position update
\* that is sent names a task of the pool
C25_StrayDropIsNoOp ==
    /\ [](\A taskId \in StrayIds, n \in DOMAIN nodes \cup {null} :
            /\ ENABLED handleDrop(taskId, n)
            /\ ~ENABLED (handleDrop(taskId, n) /\ vars' # vars))
    /\ [][sent' # sent
            => \A req \in NewlySent("update") :
                  ~req.clear_dag_position
                      => req.taskId \in poolTasks(tasks)]_vars

\* one request has been sent and answered; a task of the list held is on
\* the graph, so its id is none of the pool, another is still in the pool,
\* and a further request could be sent
C25_Witness ==
    /\ sent = 1
    /\ inflight = EmptyBag
    /\ \E t \in Tasks : t \in StrayIds /\ t \in dagTasks(tasks)
    /\ poolTasks(tasks) # {}
    /\ Room(1)

\* ---- C26 ----
\* C26: when the first render of TaskDagView has a non-empty task list in
\* which no task has a saved position, the auto-layout armed by the
\* initialisation effect eventually runs, and it never runs more than once
C26_InitialLayoutEventuallyRunsOnce ==
    /\ (hasNoPositions(tasks) /\ DOMAIN tasks # {}) => <>(initialLayouts = 1)
    /\ [](initialLayouts <= 1)

\* ---- C27 ----
\* this step sends the delete request for the edge the dialog is open for,
\* once, closes the dialog and clears the pending edge id
ConfirmedDelete ==
    /\ deleteDialogOpen
    /\ edgeToDelete # NoEdge
    /\ inflight' = inflight (+) SetToBag({DeleteReq(getDependencyIdFromEdgeId(edgeToDelete))})
    /\ sent' = sent + 1
    /\ ~deleteDialogOpen'
    /\ edgeToDelete' = NoEdge

\* this step sends the delete request for one edge shown, once, and leaves
\* the dialog as it is
RemovalDelete ==
    /\ \E e \in edges :
          inflight' = inflight (+) SetToBag({DeleteReq(getDependencyIdFromEdgeId(e.id))})
    /\ sent' = sent + 1
    /\ UNCHANGED dialogVars

\* opening, cancelling and dismissing the dialog send nothing; the dialog
\* opens for the edge whose delete button was pressed and keeps it while open
DialogStepsSendNothing ==
    /\ \A i \in DepIds :
          handleEdgeDelete(createEdgeIdFromDependency([id |-> i]))
              => /\ UNCHANGED reqVars
                 /\ deleteDialogOpen'
                 /\ edgeToDelete' = createEdgeIdFromDependency([id |-> i])
    /\ (cancelDelete \/ onOpenChange(FALSE)) => UNCHANGED reqVars
    /\ (deleteDialogOpen /\ deleteDialogOpen') => edgeToDelete' = edgeToDelete
    /\ confirmDelete => (ConfirmedDelete \/ (UNCHANGED reqVars /\ ~deleteDialogOpen'
                                                /\ edgeToDelete' = NoEdge))

\* C27 as stated: every delete request sent is the one of a confirmed
\* dialog, for the edge the dialog was opened for; opening and cancelling
\* send nothing; after the confirmation the dialog is closed and the pending
\* edge id is cleared
C27_EveryDeleteWasConfirmed ==
    /\ [][(sent' # sent /\ NewlySent("delete") # {}) => ConfirmedDelete]_vars
    /\ [][DialogStepsSendNothing]_vars

\* C27 (amended): every delete request sent is the one of a confirmed dialog
\* for the edge the dialog was opened for, or the one of an edge-removal
\* change of the graph widget for an edge shown; opening and cancelling the
\* dialog send nothing; after a confirmation the dialog is closed and the
\* pending edge id is cleared
C27_EveryDeleteWasConfirmedOrRemoval ==
    /\ [][(sent' # sent /\ NewlySent("delete") # {})
             => (ConfirmedDelete \/ RemovalDelete)]_vars
    /\ [][DialogStepsSendNothing]_vars

\* the dialog is open for an edge that is shown and the confirmation can
\* send its delete request
C27_Witness ==
    /\ deleteDialogOpen
    /\ edgeToDelete \in {e.id : e \in edges}
    /\ ENABLED (confirmDelete /\ sent' # sent)

\* ---- C28 ----
\* C28: the edges of TaskDAGViewInner are, one for one, the dependencies of
\* a list the server returned at a fetch; a step that sends a request (a
\* connect, an edge removal of the graph widget) leaves the edges as they
\* are, the removal sending only its delete request; the edges change only
\* in the step in which a fetched list arrives, and become that list
C28_EdgesMirrorFetchedList ==
    /\ [](/\ edges = createEdges(dependencies)
          /\ Cardinality(edges) = Cardinality(dependencies)
          /\ \A dep \in dependencies :
                Cardinality({e \in edges : getDependencyIdFromEdgeId(e.id) = dep.id}) = 1)
    /\ [][(depsQuery # "fetching" /\ depsQuery' = "fetching") => depsResp' = srvDeps]_vars
    /\ [][edges' # edges
             => /\ depsQuery = "fetching"
                /\ depsQuery' = "idle"
                /\ dependencies' = depsResp
                /\ edges' = createEdges(depsResp)]_vars
    /\ [][sent' # sent
             => /\ edges' = edges
                /\ dependencies' = dependencies
                /\ \A i \in DepIds :
                      onEdgesChange(createEdgeIdFromDependency([id |-> i]))
                          => /\ NewlySent("delete") = {DeleteReq(i)}
                             /\ NewlySent("create") = {}]_vars

\* the delete request of an edge is on its way and the edge is still shown
C28_Witness ==
    \E req \in Pending("delete") :
        createEdgeIdFromDependency([id |-> req.id]) \in {e.id : e \in edges}

\* ---- C29 ----
\* C29: the release of a dragged node sends the update that clears the
\* node's position exactly when the pointer was over the sidebar at the last
\* drag event of that drag (isDraggingOverSidebar, which every release
\* resets), whenever the effect that copies it into the ref has run or not
C29_ClearIffOverSidebarAtLastDrag ==
    [][\A n \in Tasks :
          NodeDragStop(n)
              => (UpdateReq(n, null, null, TRUE) \in NewlySent("update")
                     <=> isDraggingOverSidebar)]_vars

\* ---- C30 ----
\* C30: the step in which a create or a delete request succeeds invalidates
\* the dependency query; the step in which a request fails or is rejected
\* leaves the query as it is; and once no further request succeeds, the
\* edges of the view come to be those of the service's dependencies and
\* stay so
C30_SuccessInvalidatesAndEdgesConverge ==
    /\ [][(inflight' # inflight /\ sent' = sent)
             => \A req \in Requests :
                   /\ (CreateSucceeds(req) \/ DeleteSucceeds(req))
                          => (depsQuery' = "stale" /\ depsResp' = {})
                   /\ (RequestFails(req) \/ CreateConflicts(req))
                          => UNCHANGED <<depsQuery, depsResp, dependencies, edges>>]_vars
    /\ [][srvDeps' # srvDeps => depsQuery' = "stale"]_vars
    /\ <>[](edges = createEdges(srvDeps))

\* a dependency was created and the refreshed list has arrived: nothing is
\* pending and the edges are those of the service, which has a dependency
C30_Witness ==
    /\ srvDeps # {}
    /\ inflight = EmptyBag
    /\ depsQuery = "idle"
    /\ edges = createEdges(srvDeps)

=============================================================================
